---------------------------- MODULE Spec2Model ----------------------------
(***************************************************************************)
(* Transactional edit orchestration of the Model Server node.js layer:     *)
(* DefaultTransactionContext (client/model-server-client.ts), the trigger  *)
(* and command provider registries and EditService.edit.                   *)
(*                                                                         *)
(* One transaction context is modelled together with the single caller     *)
(* that drives it. Asynchronous calls are modelled by a stack `k` of       *)
(* activation records (one per async function that has not returned yet)   *)
(* and the value `ret` that the callee just settled with.  Every action    *)
(* is one synchronous run of code between two suspension points.           *)
(***************************************************************************)
EXTENDS Integers, Sequences, FiniteSets, TLC

VARIABLES
    ws,              \* state of the WebSocket object: none/connecting/open/closed
    socket,          \* DefaultTransactionContext.socket is set
    uuid,            \* DefaultTransactionContext.uuid: pending/resolved/rejected
    hsAcceptor,      \* the one-shot acceptor of the handshake message is listening
    openPromise,     \* promise returned by open(): none/pending/resolved/rejected
    closeCallbacks,  \* number of invocations of closeCallback
    nestedContexts,  \* DefaultTransactionContext.nestedContexts (aggregatedUpdateResult of each)
    k,               \* activation records of the async functions in progress, innermost last
    ret,             \* settlement of the call that just returned to Top(k)
    sent,            \* messages written to the socket, in order
    unanswered,      \* bodies of the 'execute' messages not yet answered by upstream
    triggerProviders,\* TriggerProviderRegistry.providers, in registration order
    commandProviders,\* CommandProviderRegistry.providers.get(CustomType)
    mode,            \* who drives the context: "direct" (a client of the API) or "edit" (EditService)
    calls,           \* number of top-level calls issued by the direct caller
    last,            \* history: the latest top-level call, its settlement, and the state it was issued in
    hist,            \* history: flags recording what has happened to the transaction
    children,        \* number of child transactions open on the context
    modelURI,        \* the URI of the model the trigger providers are asked about
    spyCalls,        \* patches received by the spy Executor of the registry tests
    jsonSocket,      \* a JSONSocket with a message handler: what it delivered and raised
    acceptor,        \* a one-shot WebSocketMessageAcceptor.promise on that socket
    registrations,   \* keys of TriggerProviderRegistry.providers, and the count of UUIDs generated
    contexts         \* the transaction contexts of two transactions open at the same time

vars == <<ws, socket, uuid, hsAcceptor, openPromise, closeCallbacks, nestedContexts, k, ret,
          sent, unanswered, triggerProviders, commandProviders, mode, calls, last, hist, children,
          modelURI, spyCalls, jsonSocket, acceptor, registrations, contexts>>

-----------------------------------------------------------------------------
(* Bounds *)

MaxCalls == 3          \* top-level calls the direct caller issues on one context
MaxProviders == 2      \* registered trigger providers
MaxCmdProviders == 1   \* command providers registered for the custom command type
MaxChildren == 1       \* child transactions opened on one context
MaxFrames == 3         \* frames received on the JSONSocket
MaxRegistered == 2     \* providers registered by the plug-ins in each registry
MaxOps == 2            \* applyPatch calls on each of two contexts used at the same time

-----------------------------------------------------------------------------
(* Values: strings are sequences of characters, patches are sequences of operations *)

Digits == {"1", "2"}

endsWithNumber(s) == Len(s) > 0 /\ s[Len(s)] \in Digits

ReplaceOp(path, value) == [op |-> "replace", path |-> path, value |-> value]

NewName == <<"N">>
NextName == <<"N", "2">>

PatchA == <<ReplaceOp("/x", NewName)>>
PatchB == <<ReplaceOp("/x", NextName)>>
EmptyPatch == <<>>

\* what the appendOne trigger provides for PatchA
TriggeredPatch == <<ReplaceOp("/x", NewName \o <<" ", "1">>)>>

TxnTriggerPatch == <<ReplaceOp("/t", <<"T">>)>>
CommandFnPatch == <<ReplaceOp("/c", <<"C">>)>>

CustomType == "test-set-name"
SetType == "set"

CustomCommand == [type |-> CustomType, patch |-> <<ReplaceOp("/n", <<"H">>)>>]
SetCommand == [type |-> SetType, patch |-> <<ReplaceOp("/n", <<"S">>)>>]

-----------------------------------------------------------------------------
(* Settlements of a call *)

NoRet == [tag |-> "none"]
Resolved(r) == [tag |-> "result", res |-> r]
ResolvedBool(b) == [tag |-> "bool", b |-> b]
Rejected(reason) == [tag |-> "err", reason |-> reason]

SocketIsClosed == "Socket is closed."
SocketClosedReason == "Socket closed"
CommandFailed == "Command execution failed."
TransactionFailed == "Transaction failed"
Boom == "Boom!"
TypeError == "TypeError"

Top(s) == s[Len(s)]
Pop(s) == SubSeq(s, 1, Len(s) - 1)

-----------------------------------------------------------------------------
(* Model update results *)

\* const transactionClosed: ModelUpdateResult = { success: false }
transactionClosed == [success |-> FALSE, patch |-> <<>>]

\* MessageDataMapper.patchModel applied to an inbound message
patchModel(msg) ==
    IF msg.type = "success"
    THEN [success |-> TRUE, patch |-> msg.patch]
    ELSE [success |-> FALSE, patch |-> <<>>]

\* the aggregatedUpdateResult of a freshly pushed nested context
emptyResult == patchModel([type |-> "success", patch |-> <<>>])

mergeReversed(dst, src) ==
    IF Len(src.patch) > 0
    THEN [success |-> dst.success /\ src.success, patch |-> src.patch \o dst.patch]
    ELSE dst

mergeModelUpdateResult(dst, src) ==
    IF Len(src.patch) > 0
    THEN [success |-> dst.success /\ src.success, patch |-> dst.patch \o src.patch]
    ELSE dst

pushNestedContext(ctxs) == Append(ctxs, emptyResult)

popNoMerge(ctxs) == Pop(ctxs)

popMergeTwice(ctxs) ==
    IF Len(ctxs) > 1
    THEN [Pop(ctxs) EXCEPT ![Len(ctxs) - 1] =
             mergeModelUpdateResult(mergeModelUpdateResult(@, Top(ctxs)), Top(ctxs))]
    ELSE Pop(ctxs)

\* the stack left by popNestedContext; the popped result is Top(ctxs)
popNestedContext(ctxs) ==
    IF Len(ctxs) > 1
    THEN [Pop(ctxs) EXCEPT ![Len(ctxs) - 1] = mergeModelUpdateResult(@, Top(ctxs))]
    ELSE Pop(ctxs)

-----------------------------------------------------------------------------
(* Trigger providers.  A provider is identified by its behaviour:           *)
(*   appendOne  the trigger of the integration tests: appends " 1" to a     *)
(*              replaced string value unless it ends in a digit            *)
(*   bomber     getTriggers throws 'Boom!'                                 *)
(*   txnTrue / txnFalse  getTriggers returns a transaction function that   *)
(*              applies TxnTriggerPatch and returns true / false, unless   *)
(*              the delta already touches its path                         *)
(*   never      canTrigger never holds                                     *)

TriggerKinds == {"appendOne", "bomber", "txnTrue", "txnFalse", "never"}

(* The providers of the registry tests: provider1 can trigger on the model 'test:a', *)
(* provider2 on every model whose URI starts with 'test:'; each provides a patch     *)
RegistryTestKinds == {"provider1", "provider2"}

TestScheme == <<"t", "e", "s", "t", ":">>
TestA == TestScheme \o <<"a">>
TestB == TestScheme \o <<"b">>
NoneA == <<"n", "o", "n", "e", ":", "a">>

Provider1Patch == <<ReplaceOp("/foo/bar/name", <<"P", "1">>)>>
Provider2Patch == <<[op |-> "remove", path |-> "/foo/bar/things/2", value |-> <<>>]>>
QueryPatch == <<[op |-> "replace", path |-> "/foo/bar/size", value |-> <<"4", "2">>]>>

Script(rest, out) == [rest |-> rest, out |-> out]

startsWith(s, prefix) == Len(s) >= Len(prefix) /\ SubSeq(s, 1, Len(prefix)) = prefix

canTrigger(p, delta) ==
    CASE p = "never" -> FALSE
      [] p = "provider1" -> modelURI = TestA
      [] p = "provider2" -> startsWith(modelURI, TestScheme)
      [] OTHER -> TRUE

touches(delta, path) == \E i \in 1..Len(delta) : delta[i].path = path

providerGetTriggers(p, delta) ==
    CASE p = "appendOne" ->
            IF Len(delta) = 1 /\ delta[1].op = "replace" /\ ~endsWithNumber(delta[1].value)
            THEN [tag |-> "patch", patch |-> <<ReplaceOp(delta[1].path, delta[1].value \o <<" ", "1">>)>>]
            ELSE [tag |-> "patch", patch |-> <<>>]
      [] p = "bomber" -> [tag |-> "throw"]
      [] p = "provider1" -> [tag |-> "patch", patch |-> Provider1Patch]
      [] p = "provider2" -> [tag |-> "patch", patch |-> Provider2Patch]
      [] p \in {"txnTrue", "txnFalse"} ->
            IF touches(delta, "/t")
            THEN [tag |-> "patch", patch |-> <<>>]
            ELSE [tag |-> "fn", script |-> Script(<<TxnTriggerPatch>>, IF p = "txnTrue" THEN "true" ELSE "false")]
      [] OTHER -> [tag |-> "patch", patch |-> <<>>]

\* TriggerProviderRegistry.hasProviders
hasProviders(registry) == Len(registry) > 0

getProvidersReversed(registry, delta) ==
    LET providers == SelectSeq(registry, LAMBDA p : canTrigger(p, delta))
    IN  [i \in 1..Len(providers) |-> providers[Len(providers) + 1 - i]]

\* TriggerProviderRegistry.getProviders
getProviders(registry, delta) == SelectSeq(registry, LAMBDA p : canTrigger(p, delta))

getProviderAlwaysAggregate(registry, delta) ==
    LET providers == getProviders(registry, delta)
    IN  CASE Len(providers) = 0 -> [tag |-> "undefined"]
          [] OTHER -> [tag |-> "multi", providers |-> providers]

\* TriggerProviderRegistry.getProvider: undefined, the single match, or the aggregate
getProvider(registry, delta) ==
    LET providers == getProviders(registry, delta)
    IN  CASE Len(providers) = 0 -> [tag |-> "undefined"]
          [] Len(providers) = 1 -> [tag |-> "single", provider |-> providers[1]]
          [] OTHER -> [tag |-> "multi", providers |-> providers]

\* TriggerProviderRegistry.getTriggers
getTriggers(registry, delta) ==
    LET provider == getProvider(registry, delta)
    IN  CASE provider.tag = "undefined" -> [tag |-> "undefined"]
          [] provider.tag = "single" -> providerGetTriggers(provider.provider, delta)
          [] OTHER -> [tag |-> "multi", providers |-> provider.providers]

hasTriggersFunctionOnly(triggers) == triggers.tag \in {"fn", "multi"}

\* DefaultTransactionContext.hasTriggers
hasTriggers(triggers) ==
    /\ triggers.tag # "undefined"
    /\ (triggers.tag \in {"fn", "multi"} \/ Len(triggers.patch) > 0)

-----------------------------------------------------------------------------
(* Command providers for the custom command type                            *)
(*   fnTrue / fnFalse / fnThrow  getCommands returns a transaction function *)
(*              that applies CommandFnPatch and returns true / returns      *)
(*              false / rejects                                            *)
(*   substCommand  getCommands returns a substitute SetCommand             *)
(*   substPatch    getCommands returns a substitute JSON patch             *)
(*   cannot        canHandle never holds                                   *)

CommandKinds == {"fnTrue", "fnFalse", "fnThrow", "substCommand", "substPatch", "cannot"}

canHandle(p, command) == p # "cannot"

providerGetCommands(p, command) ==
    CASE p = "fnTrue" -> [tag |-> "fn", script |-> Script(<<CommandFnPatch>>, "true")]
      [] p = "fnFalse" -> [tag |-> "fn", script |-> Script(<<CommandFnPatch>>, "false")]
      [] p = "fnThrow" -> [tag |-> "fn", script |-> Script(<<CommandFnPatch>>, "throw")]
      [] p = "substCommand" -> [tag |-> "command", command |-> [SetCommand EXCEPT !.patch = command.patch]]
      [] OTHER -> [tag |-> "patch", patch |-> command.patch]

\* CommandProviderRegistry.getProviders
getCommandProviders(registry, type) == IF type = CustomType THEN registry ELSE <<>>

\* CommandProviderRegistry.hasProvider
hasProvider(registry, type) == Len(getCommandProviders(registry, type)) > 0

getCommandsLast(registry, command) ==
    LET handlers == SelectSeq(getCommandProviders(registry, command.type), LAMBDA p : canHandle(p, command))
    IN  IF Len(handlers) > 0
        THEN providerGetCommands(handlers[Len(handlers)], command)
        ELSE [tag |-> "command", command |-> command]

\* CommandProviderRegistry.getCommands
getCommands(registry, command) ==
    LET handlers == SelectSeq(getCommandProviders(registry, command.type), LAMBDA p : canHandle(p, command))
    IN  IF Len(handlers) > 0
        THEN providerGetCommands(handlers[1], command)
        ELSE [tag |-> "command", command |-> command]

\* isCustomCommand of edit-service.ts
isCustomCommand(command) == command.type # SetType

-----------------------------------------------------------------------------
(* Messages *)

ExecutePatch(patch) == [type |-> "modelserver.patch", patch |-> patch]
ExecuteCommand(command) == [type |-> "modelserver.emfcommand", patch |-> command.patch, command |-> command.type]

message(type, data) == [type |-> type, data |-> data]

NoData == [type |-> "none", patch |-> <<>>]

\* what the upstream server may answer to an 'execute' message
Replies(body) ==
    { [type |-> "success", patch |-> body.patch],
      [type |-> "success", patch |-> <<>>],
      [type |-> "error", patch |-> <<>>] }

Sent(type) == \E i \in 1..Len(sent) : sent[i].type = type
CountSent(type) == Cardinality({i \in 1..Len(sent) : sent[i].type = type})

-----------------------------------------------------------------------------
(* Initial states *)

SeqsUpTo(S, n) == UNION {[1..m -> S] : m \in 0..n}

NoCall == [op |-> [kind |-> "none"], out |-> NoRet, ctxs |-> <<>>, nsent |-> 0, socket |-> FALSE]

\* the record of a top-level call issued in the current state
Issue(op) == [op |-> op, out |-> NoRet, ctxs |-> nestedContexts, nsent |-> Len(sent), socket |-> socket]

Start ==
    /\ ws = "none"
    /\ socket = FALSE
    /\ uuid = "pending"
    /\ hsAcceptor = FALSE
    /\ openPromise = "none"
    /\ closeCallbacks = 0
    /\ nestedContexts = <<>>
    /\ k = <<>>
    /\ ret = NoRet
    /\ sent = <<>>
    /\ unanswered = <<>>
    /\ calls = 0
    /\ last = NoCall
    /\ children = 0
    /\ hist = [commit |-> FALSE, rollback |-> FALSE, cascadeFailed |-> FALSE,
               providerThrew |-> FALSE, validated |-> FALSE, validation |-> "none",
               pure |-> TRUE, applied |-> <<>>, nested |-> "none", echo |-> TRUE]

\* the transactions that may be open at the same time, each with a context of its own
ContextIds == {1, 2}

\* a DefaultTransactionContext as its constructor leaves it; ops, merged and out are
\* history: the calls of its client, the replies merged, the result of close or rollback
NewContext ==
    [state |-> "none", socket |-> FALSE, nestedContexts |-> <<>>, sent |-> <<>>,
     awaiting |-> <<>>, ops |-> 0, merged |-> <<>>, out |-> NoRet]

NoContexts == [c \in ContextIds |-> NewContext]

\* no JSONSocket, acceptor, spy Executor or second transaction besides the transaction context
NoUtilities ==
    /\ contexts = NoContexts
    /\ spyCalls = <<>>
    /\ jsonSocket = [open |-> FALSE, frames |-> 0, handled |-> <<>>, raised |-> 0]
    /\ acceptor = [listening |-> FALSE, promise |-> NoRet, settled |-> 0]

\* the keys of trigger providers registered one after another on a new registry
Registered(registry) == [ids |-> [i \in 1..Len(registry) |-> i], uuids |-> Len(registry)]

\* a client drives a transaction context; no trigger provider is registered
Init ==
    /\ Start
    /\ NoUtilities
    /\ modelURI = TestA
    /\ mode = "direct"
    /\ triggerProviders = <<>>
    /\ registrations = Registered(triggerProviders)
    /\ commandProviders \in SeqsUpTo(CommandKinds, MaxCmdProviders)

\* EditService.edit is called once, with any registration of providers
InitEdit ==
    /\ Start
    /\ NoUtilities
    /\ modelURI = TestA
    /\ mode = "edit"
    /\ triggerProviders \in SeqsUpTo(TriggerKinds, MaxProviders)
    /\ registrations = Registered(triggerProviders)
    /\ commandProviders \in SeqsUpTo(CommandKinds, MaxCmdProviders)

sockVars == <<ws, socket, uuid, hsAcceptor, openPromise, closeCallbacks>>
cfgVars == <<triggerProviders, commandProviders, mode, modelURI, registrations>>
utilVars == <<spyCalls, jsonSocket, acceptor, contexts>>
wireVars == <<sent, unanswered>>
callerVars == <<calls, last, children>>

-----------------------------------------------------------------------------
(* Opening the transaction and socket events *)

\* InternalModelServerClient.openTransaction followed by DefaultTransactionContext.open:
\* the POST may be refused; otherwise the socket is created and the root context pushed
OpenContext ==
    /\ ws = "none"
    /\ openPromise = "none"
    /\ \/ /\ openPromise' = "rejected"
          /\ UNCHANGED <<ws, nestedContexts>>
       \/ /\ ws' = "connecting"
          /\ openPromise' = "pending"
          /\ nestedContexts' = pushNestedContext(nestedContexts)
    /\ UNCHANGED <<socket, uuid, hsAcceptor, closeCallbacks>>

SocketOpenResolves ==
    /\ ws = "connecting"
    /\ ws' = "open"
    /\ socket' = TRUE
    /\ hsAcceptor' = TRUE
    /\ openPromise' = IF openPromise = "pending" THEN "resolved" ELSE openPromise
    /\ UNCHANGED <<uuid, closeCallbacks, nestedContexts, k, ret>>
    /\ UNCHANGED <<wireVars, cfgVars, utilVars, callerVars, hist>>

\* socket.onopen: the socket is kept and the handshake message awaited
SocketOpen ==
    /\ ws = "connecting"
    /\ ws' = "open"
    /\ socket' = TRUE
    /\ hsAcceptor' = TRUE
    /\ UNCHANGED <<uuid, openPromise, closeCallbacks, nestedContexts, k, ret>>
    /\ UNCHANGED <<wireVars, cfgVars, utilVars, callerVars, hist>>

\* the handshake message (a string payload) resolves the UUID and open()
Handshake ==
    /\ ws = "open"
    /\ hsAcceptor
    /\ hsAcceptor' = FALSE
    /\ uuid' = "resolved"
    /\ openPromise' = IF openPromise = "pending" THEN "resolved" ELSE openPromise
    /\ UNCHANGED <<ws, socket, closeCallbacks, nestedContexts, k, ret>>
    /\ UNCHANGED <<wireVars, cfgVars, utilVars, callerVars, hist>>

\* socket.onerror: open() is rejected if it is still pending
SocketError ==
    /\ ws \in {"connecting", "open"}
    /\ openPromise = "pending"
    /\ openPromise' = "rejected"
    /\ UNCHANGED <<ws, socket, uuid, hsAcceptor, closeCallbacks, nestedContexts, k, ret>>
    /\ UNCHANGED <<wireVars, cfgVars, utilVars, callerVars, hist>>

SocketCloseSilent ==
    /\ ws \in {"connecting", "open"}
    /\ ws' = "closed"
    /\ socket' = FALSE
    /\ closeCallbacks' = closeCallbacks + 1
    /\ hsAcceptor' = FALSE
    /\ uuid' = IF hsAcceptor THEN "rejected" ELSE uuid
    /\ UNCHANGED <<k, ret, openPromise, nestedContexts>>
    /\ UNCHANGED <<wireVars, cfgVars, utilVars, callerVars, hist>>

\* socket.onclose, and the close handler of whichever one-shot acceptor is listening
SocketClose ==
    /\ ws \in {"connecting", "open"}
    /\ ws' = "closed"
    /\ socket' = FALSE
    /\ closeCallbacks' = closeCallbacks + 1
    /\ hsAcceptor' = FALSE
    /\ uuid' = IF hsAcceptor THEN "rejected" ELSE uuid
    /\ IF Len(k) > 0 /\ Top(k).kind = "await"
       THEN k' = Pop(k) /\ ret' = Rejected(SocketClosedReason)
       ELSE UNCHANGED <<k, ret>>
    /\ UNCHANGED <<openPromise, nestedContexts>>
    /\ UNCHANGED <<wireVars, cfgVars, utilVars, callerVars, hist>>

-----------------------------------------------------------------------------
(* applyPatch, execute and the correlated reply *)

Return(value) == k' = Pop(k) /\ ret' = value
Running(kind) == Len(k) > 0 /\ Top(k).kind = kind /\ ret.tag = "none"
Returned(kind) == Len(k) > 0 /\ Top(k).kind = kind /\ ret.tag # "none"

sendExecuteMessageRoot(body) ==
    IF ~socket
    THEN Return(Rejected(SocketIsClosed)) /\ UNCHANGED wireVars
    ELSE IF Len(nestedContexts) = 0
    THEN Return(Rejected(TypeError)) /\ UNCHANGED wireVars
    ELSE /\ k' = Append(Pop(k), [kind |-> "await", cur |-> 1])
         /\ ret' = NoRet
         /\ sent' = Append(sent, message("execute", body))
         /\ unanswered' = Append(unanswered, body)

\* DefaultTransactionContext.sendExecuteMessage, up to the await of the reply
sendExecuteMessage(body) ==
    IF ~socket
    THEN Return(Rejected(SocketIsClosed)) /\ UNCHANGED wireVars
    ELSE IF Len(nestedContexts) = 0
    THEN Return(Rejected(TypeError)) /\ UNCHANGED wireVars
    ELSE /\ k' = Append(Pop(k), [kind |-> "await", cur |-> Len(nestedContexts)])
         /\ ret' = NoRet
         /\ sent' = Append(sent, message("execute", body))
         /\ unanswered' = Append(unanswered, body)

applyPatchSendsEmpty ==
    /\ Running("applyPatch")
    /\ IF ~socket
       THEN Return(Rejected(SocketIsClosed)) /\ UNCHANGED wireVars
       ELSE sendExecuteMessage(ExecutePatch(Top(k).patch))
    /\ UNCHANGED <<sockVars, nestedContexts, cfgVars, utilVars, callerVars, hist>>

applyPatchUnchecked ==
    /\ Running("applyPatch")
    /\ LET patch == Top(k).patch
       IN  IF Len(patch) = 0
           THEN Return(Resolved([success |-> FALSE, patch |-> <<>>])) /\ UNCHANGED wireVars
           ELSE /\ k' = Append(Pop(k), [kind |-> "await", cur |-> Len(nestedContexts)])
                /\ ret' = NoRet
                /\ sent' = Append(sent, message("execute", ExecutePatch(patch)))
                /\ unanswered' = Append(unanswered, ExecutePatch(patch))
    /\ UNCHANGED <<sockVars, nestedContexts, cfgVars, utilVars, callerVars, hist>>

\* DefaultTransactionContext.applyPatch
applyPatch ==
    /\ Running("applyPatch")
    /\ LET patch == Top(k).patch
       IN  IF ~socket
           THEN Return(Rejected(SocketIsClosed)) /\ UNCHANGED wireVars
           ELSE IF Len(patch) = 0
           THEN Return(Resolved([success |-> FALSE, patch |-> <<>>])) /\ UNCHANGED wireVars
           ELSE sendExecuteMessage(ExecutePatch(patch))
    /\ UNCHANGED <<sockVars, nestedContexts, cfgVars, utilVars, callerVars, hist>>

UpstreamReplyMergesTwice ==
    /\ Running("await")
    /\ ws = "open"
    /\ Len(unanswered) > 0
    /\ \E msg \in Replies(Head(unanswered)) :
          LET modelUpdateResult == patchModel(msg)
              cur == Top(k).cur
          IN  /\ nestedContexts' =
                    IF cur <= Len(nestedContexts)
                    THEN [nestedContexts EXCEPT ![cur] =
                             mergeModelUpdateResult(mergeModelUpdateResult(@, modelUpdateResult),
                                                    modelUpdateResult)]
                    ELSE nestedContexts
              /\ Return(Resolved(modelUpdateResult))
              /\ hist' = [hist EXCEPT !.echo = @ /\ msg = [type |-> "success", patch |-> Head(unanswered).patch]]
    /\ unanswered' = Tail(unanswered)
    /\ UNCHANGED <<sockVars, sent, cfgVars, utilVars, callerVars>>

\* the reply accepted by the one-shot acceptor of sendExecuteMessage
UpstreamReply ==
    /\ Running("await")
    /\ ws = "open"
    /\ Len(unanswered) > 0
    /\ \E msg \in Replies(Head(unanswered)) :
          LET modelUpdateResult == patchModel(msg)
              cur == Top(k).cur
          IN  /\ nestedContexts' =
                    IF cur <= Len(nestedContexts)
                    THEN [nestedContexts EXCEPT ![cur] = mergeModelUpdateResult(@, modelUpdateResult)]
                    ELSE nestedContexts
              /\ Return(Resolved(modelUpdateResult))
              /\ hist' = [hist EXCEPT !.echo = @ /\ msg = [type |-> "success", patch |-> Head(unanswered).patch]]
    /\ unanswered' = Tail(unanswered)
    /\ UNCHANGED <<sockVars, sent, cfgVars, utilVars, callerVars>>

\* DefaultTransactionContext.execute, up to its first suspension
execute ==
    /\ Running("execute")
    /\ Top(k).pc = "start"
    /\ LET command == Top(k).command
           provided == getCommands(commandProviders, command)
       IN  IF ~socket
           THEN Return(Rejected(SocketIsClosed)) /\ UNCHANGED <<wireVars, nestedContexts>>
           ELSE IF ~hasProvider(commandProviders, command.type)
           THEN sendExecuteMessage(ExecuteCommand(command)) /\ UNCHANGED nestedContexts
           ELSE IF provided.tag = "fn"
           THEN /\ nestedContexts' = pushNestedContext(nestedContexts)
                /\ k' = Append([k EXCEPT ![Len(k)].pc = "provided"],
                               [kind |-> "script", rest |-> provided.script.rest, out |-> provided.script.out])
                /\ ret' = NoRet
                /\ UNCHANGED wireVars
           ELSE IF provided.tag = "command"
           THEN sendExecuteMessage(ExecuteCommand(provided.command)) /\ UNCHANGED nestedContexts
           ELSE sendExecuteMessage(ExecutePatch(provided.patch)) /\ UNCHANGED nestedContexts
    /\ UNCHANGED <<sockVars, cfgVars, utilVars, callerVars, hist>>

\* DefaultTransactionContext.execute after the provided transaction function settled
executeProvided ==
    /\ Returned("execute")
    /\ Top(k).pc = "provided"
    /\ IF ret.tag = "err"
       THEN Return(ret) /\ UNCHANGED nestedContexts
       ELSE IF ~ret.b
       THEN /\ nestedContexts' = popNestedContext(nestedContexts)
            /\ Return(Rejected(CommandFailed))
       ELSE /\ nestedContexts' = popNestedContext(nestedContexts)
            /\ Return(Resolved(Top(nestedContexts)))
    /\ UNCHANGED <<sockVars, wireVars, cfgVars, utilVars, callerVars, hist>>

\* a provided transaction function: applies its patches in order, then returns or rejects
scriptStep ==
    /\ Running("script")
    /\ IF Len(Top(k).rest) > 0
       THEN /\ k' = Append([k EXCEPT ![Len(k)].rest = Tail(@)],
                           [kind |-> "applyPatch", patch |-> Head(Top(k).rest)])
            /\ ret' = NoRet
       ELSE IF Top(k).out = "throw"
       THEN Return(Rejected(Boom))
       ELSE Return(ResolvedBool(Top(k).out = "true"))
    /\ UNCHANGED <<sockVars, nestedContexts, wireVars, cfgVars, utilVars, callerVars, hist>>

\* a provided transaction function resumes after an awaited applyPatch
scriptResume ==
    /\ Returned("script")
    /\ IF ret.tag = "err"
       THEN Return(ret)
       ELSE k' = k /\ ret' = NoRet
    /\ UNCHANGED <<sockVars, nestedContexts, wireVars, cfgVars, utilVars, callerVars, hist>>

-----------------------------------------------------------------------------
(* close (commit), its trigger loop, and rollback *)

TriggerFrame(triggers, delta) ==
    CASE triggers.tag = "fn" -> [kind |-> "script", rest |-> triggers.script.rest, out |-> triggers.script.out]
      [] triggers.tag = "multi" -> [kind |-> "multi", pc |-> "next", provs |-> triggers.providers,
                                    delta |-> delta, result |-> TRUE, all |-> TRUE]
      [] OTHER -> [kind |-> "applyPatch", patch |-> triggers.patch]

\* DefaultTransactionContext.close: pop the current context, answer at once without a socket
close ==
    /\ Running("close")
    /\ Top(k).pc = "start"
    /\ hist' = [hist EXCEPT !.commit = TRUE]
    /\ IF Len(nestedContexts) = 0
       THEN Return(Rejected(TypeError)) /\ UNCHANGED nestedContexts
       ELSE /\ nestedContexts' = popNestedContext(nestedContexts)
            /\ IF ~socket
               THEN Return(Resolved(transactionClosed))
               ELSE /\ k' = [k EXCEPT ![Len(k)] = [kind |-> "close", pc |-> "loop",
                                                   updateResult |-> Top(nestedContexts),
                                                   modelDelta |-> Top(nestedContexts).patch]]
                    /\ ret' = NoRet
    /\ UNCHANGED <<sockVars, wireVars, cfgVars, utilVars, callerVars>>

\* one test of the loop condition of close: query the triggers of the delta and perform
\* them (performTriggers up to its first suspension), or send 'close' and return
closeLoop ==
    /\ Running("close")
    /\ Top(k).pc = "loop"
    /\ LET modelDelta == Top(k).modelDelta
           triggers == getTriggers(triggerProviders, modelDelta)
       IN  IF Len(modelDelta) > 0
           THEN IF triggers.tag = "throw"
                THEN /\ Return(Rejected(Boom))
                     /\ hist' = [hist EXCEPT !.cascadeFailed = TRUE, !.providerThrew = TRUE]
                     /\ UNCHANGED <<nestedContexts, sent>>
                ELSE IF ~hasTriggers(triggers)
                THEN /\ k' = [k EXCEPT ![Len(k)].modelDelta = <<>>]
                     /\ ret' = NoRet
                     /\ UNCHANGED <<nestedContexts, sent, hist>>
                ELSE /\ nestedContexts' = pushNestedContext(nestedContexts)
                     /\ k' = [k EXCEPT ![Len(k)].pc = "triggered"]
                                \o <<[kind |-> "performTriggers"], TriggerFrame(triggers, modelDelta)>>
                     /\ ret' = NoRet
                     /\ UNCHANGED <<sent, hist>>
           ELSE /\ IF ~socket
                   THEN Return(Rejected(TypeError)) /\ UNCHANGED sent
                   ELSE /\ sent' = Append(sent, message("close", NoData))
                        /\ Return(Resolved(Top(k).updateResult))
                /\ UNCHANGED <<nestedContexts, hist>>
    /\ UNCHANGED <<sockVars, unanswered, cfgVars, utilVars, callerVars>>

\* DefaultTransactionContext.performTriggers after the trigger settled: the finally block
performTriggers ==
    /\ Returned("performTriggers")
    /\ hist' = IF \/ ret.tag = "err"
                  \/ (ret.tag = "bool" /\ ~ret.b)
                  \/ (ret.tag = "result" /\ ~ret.res.success)
               THEN [hist EXCEPT !.cascadeFailed = TRUE, !.providerThrew = @ \/ (ret.tag = "err" /\ ret.reason = Boom)]
               ELSE hist
    /\ IF Len(nestedContexts) = 0
       THEN Return(Rejected(TypeError)) /\ UNCHANGED nestedContexts
       ELSE /\ nestedContexts' = popNestedContext(nestedContexts)
            /\ IF ret.tag = "err"
               THEN Return(ret)
               ELSE Return(Resolved(Top(nestedContexts)))
    /\ UNCHANGED <<sockVars, wireVars, cfgVars, utilVars, callerVars>>

closeTriggeredEager ==
    /\ Returned("close")
    /\ Top(k).pc = "triggered"
    /\ IF ret.tag = "err"
       THEN Return(ret) /\ UNCHANGED sent
       ELSE /\ k' = [k EXCEPT ![Len(k)] = [kind |-> "close", pc |-> "loop",
                                           updateResult |-> mergeModelUpdateResult(@.updateResult, ret.res),
                                           modelDelta |-> ret.res.patch]]
            /\ ret' = NoRet
            /\ sent' = Append(sent, message("close", NoData))
    /\ UNCHANGED <<sockVars, nestedContexts, unanswered, cfgVars, utilVars, callerVars, hist>>

closeTriggeredRequeriesAll ==
    /\ Returned("close")
    /\ Top(k).pc = "triggered"
    /\ IF ret.tag = "err"
       THEN Return(ret)
       ELSE /\ k' = [k EXCEPT ![Len(k)] = [kind |-> "close", pc |-> "loop",
                                           updateResult |-> mergeModelUpdateResult(@.updateResult, ret.res),
                                           modelDelta |-> mergeModelUpdateResult(@.updateResult, ret.res).patch]]
            /\ ret' = NoRet
    /\ UNCHANGED <<sockVars, nestedContexts, wireVars, cfgVars, utilVars, callerVars, hist>>

\* close after performTriggers settled: merge the trigger result and loop on its patch
closeTriggered ==
    /\ Returned("close")
    /\ Top(k).pc = "triggered"
    /\ IF ret.tag = "err"
       THEN Return(ret)
       ELSE /\ k' = [k EXCEPT ![Len(k)] = [kind |-> "close", pc |-> "loop",
                                           updateResult |-> mergeModelUpdateResult(@.updateResult, ret.res),
                                           modelDelta |-> ret.res.patch]]
            /\ ret' = NoRet
    /\ UNCHANGED <<sockVars, nestedContexts, wireVars, cfgVars, utilVars, callerVars, hist>>

\* the transaction function of multiTriggerProvider: the next provider of the loop
multiTriggerProvider ==
    /\ Running("multi")
    /\ Top(k).pc = "next"
    /\ IF Len(Top(k).provs) = 0
       THEN Return(ResolvedBool(Top(k).result))
       ELSE LET provided == providerGetTriggers(Head(Top(k).provs), Top(k).delta)
            IN  IF provided.tag = "throw"
                THEN Return(Rejected(Boom))
                ELSE IF provided.tag = "fn"
                THEN /\ k' = Append([k EXCEPT ![Len(k)].pc = "fn", ![Len(k)].provs = Tail(@)],
                                    [kind |-> "script", rest |-> provided.script.rest, out |-> provided.script.out])
                     /\ ret' = NoRet
                ELSE IF Len(provided.patch) > 0
                THEN /\ k' = Append([k EXCEPT ![Len(k)].pc = "patch", ![Len(k)].provs = Tail(@)],
                                    [kind |-> "applyPatch", patch |-> provided.patch])
                     /\ ret' = NoRet
                ELSE /\ k' = [k EXCEPT ![Len(k)].provs = Tail(@)]
                     /\ ret' = NoRet
    /\ UNCHANGED <<sockVars, nestedContexts, wireVars, cfgVars, utilVars, callerVars, hist>>

multiTriggerProvidedNoBreak ==
    /\ Returned("multi")
    /\ IF ret.tag = "err"
       THEN Return(ret)
       ELSE IF Top(k).pc = "fn"
       THEN /\ k' = [k EXCEPT ![Len(k)].pc = "next", ![Len(k)].result = ret.b,
                              ![Len(k)].all = @ /\ ret.b]
            /\ ret' = NoRet
       ELSE /\ k' = [k EXCEPT ![Len(k)].pc = "next", ![Len(k)].result = ret.res.success,
                              ![Len(k)].all = @ /\ ret.res.success]
            /\ ret' = NoRet
    /\ UNCHANGED <<sockVars, nestedContexts, wireVars, cfgVars, utilVars, callerVars, hist>>

\* the transaction function of multiTriggerProvider after a provided trigger settled;
\* the field `all` of the frame is history: the conjunction of the sub-results so far
multiTriggerProvided ==
    /\ Returned("multi")
    /\ IF ret.tag = "err"
       THEN Return(ret)
       ELSE IF Top(k).pc = "fn"
       THEN IF ~ret.b
            THEN Return(ResolvedBool(FALSE))
            ELSE /\ k' = [k EXCEPT ![Len(k)].pc = "next", ![Len(k)].result = ret.b,
                                   ![Len(k)].all = @ /\ ret.b]
                 /\ ret' = NoRet
       ELSE /\ k' = [k EXCEPT ![Len(k)].pc = "next", ![Len(k)].result = ret.res.success,
                              ![Len(k)].all = @ /\ ret.res.success]
            /\ ret' = NoRet
    /\ UNCHANGED <<sockVars, nestedContexts, wireVars, cfgVars, utilVars, callerVars, hist>>

rollbackCommits ==
    /\ Running("rollback")
    /\ hist' = [hist EXCEPT !.rollback = TRUE]
    /\ sent' = IF socket THEN Append(sent, message("close", NoData)) ELSE sent
    /\ Return(Resolved(transactionClosed))
    /\ UNCHANGED <<sockVars, nestedContexts, unanswered, cfgVars, utilVars, callerVars>>

rollbackUnguarded ==
    /\ Running("rollback")
    /\ hist' = [hist EXCEPT !.rollback = TRUE]
    /\ sent' = Append(sent, message("roll-back", NoData))
    /\ Return(Resolved(transactionClosed))
    /\ UNCHANGED <<sockVars, nestedContexts, unanswered, cfgVars, utilVars, callerVars>>

\* DefaultTransactionContext.rollback
rollback ==
    /\ Running("rollback")
    /\ hist' = [hist EXCEPT !.rollback = TRUE]
    /\ sent' = IF socket THEN Append(sent, message("roll-back", NoData)) ELSE sent
    /\ Return(Resolved(transactionClosed))
    /\ UNCHANGED <<sockVars, nestedContexts, unanswered, cfgVars, utilVars, callerVars>>

-----------------------------------------------------------------------------
(* EditService.edit *)

EditInputs ==
    { [tag |-> "patch", patch |-> PatchA],
      [tag |-> "command", command |-> CustomCommand],
      [tag |-> "command", command |-> SetCommand] }

editPatch(e) == IF e.tag = "command" THEN e.command.patch ELSE e.patch

\* EditService.edit, handleCommand and forwardEdit: classify the edit, ask the command
\* providers, and either open a transaction or delegate to the REST client
edit ==
    /\ mode = "edit"
    /\ calls = 0
    /\ k = <<>>
    /\ calls' = 1
    /\ \E input \in EditInputs :
          LET providedEdit == IF input.tag = "command" /\ isCustomCommand(input.command)
                              THEN getCommands(commandProviders, input.command)
                              ELSE input
              withTriggers == hasProviders(triggerProviders)
          IN  /\ last' = Issue([kind |-> "edit", input |-> input])
              /\ IF withTriggers \/ providedEdit.tag = "fn"
                 THEN /\ OpenContext
                      /\ k' = <<[kind |-> "edit", pc |-> "opening", providedEdit |-> providedEdit,
                                 withTriggers |-> withTriggers]>>
                 ELSE /\ k' = <<[kind |-> "edit", pc |-> "rest", providedEdit |-> providedEdit,
                                 withTriggers |-> withTriggers]>>
                      /\ UNCHANGED <<sockVars, nestedContexts>>
    /\ ret' = NoRet
    /\ UNCHANGED <<wireVars, cfgVars, utilVars, hist, children>>

\* forwardEditSimple without a transaction function: modelServerClient.edit over REST
forwardEditSimple ==
    /\ Running("edit")
    /\ Top(k).pc = "rest"
    /\ \E out \in { Resolved([success |-> TRUE, patch |-> editPatch(Top(k).providedEdit)]),
                    Resolved([success |-> FALSE, patch |-> <<>>]),
                    Rejected("Request failed") } :
          IF out.tag = "result"
          THEN k' = [k EXCEPT ![Len(k)].pc = "completed"] /\ ret' = out
          ELSE Return(out)
    /\ UNCHANGED <<sockVars, nestedContexts, wireVars, cfgVars, utilVars, callerVars, hist>>

\* openTransaction rejected: so does edit
editNotOpened ==
    /\ Running("edit")
    /\ Top(k).pc = "opening"
    /\ openPromise = "rejected"
    /\ Return(Rejected("Transaction not opened"))
    /\ UNCHANGED <<sockVars, nestedContexts, wireVars, cfgVars, utilVars, callerVars, hist>>

\* the transaction is open: run the provided edit in it (triggeringTransaction, or the
\* transaction function itself on the simple path)
forwardEditWithTriggers ==
    /\ Running("edit")
    /\ Top(k).pc = "opening"
    /\ openPromise = "resolved"
    /\ LET providedEdit == Top(k).providedEdit
       IN  k' = Append([k EXCEPT ![Len(k)].pc = "edited"],
                       CASE providedEdit.tag = "fn" ->
                                [kind |-> "script", rest |-> providedEdit.script.rest, out |-> providedEdit.script.out]
                         [] providedEdit.tag = "command" ->
                                [kind |-> "execute", pc |-> "start", command |-> providedEdit.command]
                         [] OTHER -> [kind |-> "applyPatch", patch |-> providedEdit.patch])
    /\ ret' = NoRet
    /\ UNCHANGED <<sockVars, nestedContexts, wireVars, cfgVars, utilVars, callerVars, hist>>

completeTransactionNoRollback ==
    /\ Returned("edit")
    /\ Top(k).pc = "edited"
    /\ IF ret.tag = "err" \/ (ret.tag = "bool" /\ ~ret.b)
       THEN Return(Resolved(transactionClosed))
       ELSE k' = Append([k EXCEPT ![Len(k)].pc = "completed"], [kind |-> "close", pc |-> "start"])
            /\ ret' = NoRet
    /\ UNCHANGED <<sockVars, nestedContexts, wireVars, cfgVars, utilVars, callerVars, hist>>

\* completeTransaction: roll back on a falsy result, otherwise commit;
\* a rejection goes to the catch handler, which rolls back
completeTransaction ==
    /\ Returned("edit")
    /\ Top(k).pc = "edited"
    /\ IF ret.tag = "err"
       THEN k' = Append([k EXCEPT ![Len(k)].pc = "caught"], [kind |-> "rollback", error |-> ret.reason])
            /\ ret' = NoRet
       ELSE IF ret.tag = "bool" /\ ~ret.b
       THEN k' = Append([k EXCEPT ![Len(k)].pc = "completed"], [kind |-> "rollback", error |-> TransactionFailed])
            /\ ret' = NoRet
       ELSE k' = Append([k EXCEPT ![Len(k)].pc = "completed"], [kind |-> "close", pc |-> "start"])
            /\ ret' = NoRet
    /\ UNCHANGED <<sockVars, nestedContexts, wireVars, cfgVars, utilVars, callerVars, hist>>


performPatchValidationUngated ==
    /\ Returned("edit")
    /\ Top(k).pc = "completed"
    /\ IF ret.tag = "err"
       THEN /\ k' = Append([k EXCEPT ![Len(k)].pc = "caught"], [kind |-> "rollback", error |-> ret.reason])
            /\ ret' = NoRet
       ELSE /\ k' = [k EXCEPT ![Len(k)] = [kind |-> "edit", pc |-> "validating", validate |-> ret.res]]
            /\ ret' = NoRet
    /\ UNCHANGED <<sockVars, nestedContexts, wireVars, cfgVars, utilVars, callerVars, hist>>

\* performPatchValidation on the result of completeTransaction; the catch handler on a
\* rejected commit
performPatchValidation ==
    /\ Returned("edit")
    /\ Top(k).pc = "completed"
    /\ IF ret.tag = "err"
       THEN /\ k' = Append([k EXCEPT ![Len(k)].pc = "caught"], [kind |-> "rollback", error |-> ret.reason])
            /\ ret' = NoRet
       ELSE IF ret.res.success
       THEN /\ k' = [k EXCEPT ![Len(k)] = [kind |-> "edit", pc |-> "validating", validate |-> ret.res]]
            /\ ret' = NoRet
       ELSE Return(ret)
    /\ UNCHANGED <<sockVars, nestedContexts, wireVars, cfgVars, utilVars, callerVars, hist>>

\* how a run of live validation ends: there are no subscribers; the diagnostics were
\* broadcast; retrieving or validating the model, or the broadcast, failed or threw
ValidationOutcomes == {"no subscribers", "broadcast", "failed"}

performLiveValidationRejects ==
    /\ Running("edit")
    /\ Top(k).pc = "validating"
    /\ \E outcome \in ValidationOutcomes :
          /\ hist' = [hist EXCEPT !.validated = TRUE, !.validation = outcome]
          /\ IF outcome = "failed"
             THEN Return(Rejected("Live validation failed."))
             ELSE Return(Resolved(Top(k).validate))
    /\ UNCHANGED <<sockVars, nestedContexts, wireVars, cfgVars, utilVars, callerVars>>

\* ValidationManager.performLiveValidation settled: it resolves to true or, a failure
\* being caught and logged, to false, and edit resolves with the result it validated
performLiveValidation ==
    /\ Running("edit")
    /\ Top(k).pc = "validating"
    /\ \E outcome \in ValidationOutcomes :
          hist' = [hist EXCEPT !.validated = TRUE, !.validation = outcome]
    /\ Return(Resolved(Top(k).validate))
    /\ UNCHANGED <<sockVars, nestedContexts, wireVars, cfgVars, utilVars, callerVars>>

\* the catch handler of edit: its result is that of rollback
editCaught ==
    /\ Returned("edit")
    /\ Top(k).pc = "caught"
    /\ Return(ret)
    /\ UNCHANGED <<sockVars, nestedContexts, wireVars, cfgVars, utilVars, callerVars, hist>>

-----------------------------------------------------------------------------
(* A client that drives the transaction context itself, one call at a time *)

DirectOps ==
    {[kind |-> "applyPatch", patch |-> p] : p \in {PatchA, PatchB, EmptyPatch}}
        \cup {[kind |-> "execute", pc |-> "start", command |-> CustomCommand]}
        \cup {[kind |-> "close", pc |-> "start"], [kind |-> "rollback", error |-> "Test"]}

directOpen ==
    /\ mode = "direct"
    /\ OpenContext
    /\ UNCHANGED <<k, ret, wireVars, cfgVars, utilVars, callerVars, hist>>

Idle == mode = "direct" /\ openPromise = "resolved" /\ k = <<>> /\ ret.tag = "none"

directCall ==
    /\ Idle
    /\ calls < MaxCalls
    /\ \E op \in DirectOps :
          /\ op.kind = "close" => children = 0
          /\ k' = <<op>>
          /\ last' = Issue(op)
    /\ calls' = calls + 1
    /\ UNCHANGED <<sockVars, nestedContexts, ret, wireVars, cfgVars, utilVars, hist, children>>

\* the top-level call settled: the caller observes its outcome
callerReturn ==
    /\ k = <<>>
    /\ ret.tag # "none"
    /\ last' = [last EXCEPT !.out = ret]
    /\ hist' = IF last.op.kind = "applyPatch" /\ ret.tag = "result" /\ ret.res.success
               THEN [hist EXCEPT !.applied = @ \o ret.res.patch]
               ELSE IF last.op.kind \in {"close", "edit"} THEN hist
               ELSE [hist EXCEPT !.pure = FALSE]
    /\ ret' = NoRet
    /\ UNCHANGED <<sockVars, nestedContexts, k, wireVars, cfgVars, utilVars, calls, children>>

\* ModelService.openTransaction while a transaction is open on the model: a child
\* transaction is a nested context of the open one
openChild ==
    /\ Idle
    /\ socket
    /\ Len(nestedContexts) > 0
    /\ children < MaxChildren
    /\ children' = children + 1
    /\ nestedContexts' = pushNestedContext(nestedContexts)
    /\ last' = [Issue([kind |-> "openChild"]) EXCEPT !.out = ResolvedBool(TRUE)]
    /\ hist' = [hist EXCEPT !.nested = IF @ = "none" /\ hist.applied = <<>> /\ hist.pure
                                        THEN "open" ELSE "mixed"]
    /\ UNCHANGED <<sockVars, k, ret, wireVars, cfgVars, utilVars, calls>>

\* EditTransaction.commit of a child transaction: its changes are committed into the
\* nesting transaction, which remains open
commitChild ==
    /\ Idle
    /\ children > 0
    /\ Len(nestedContexts) > 1
    /\ children' = children - 1
    /\ nestedContexts' = popNestedContext(nestedContexts)
    /\ last' = [Issue([kind |-> "commitChild"]) EXCEPT !.out = Resolved(Top(nestedContexts))]
    /\ hist' = [hist EXCEPT !.nested = IF @ = "open" THEN "committed" ELSE "mixed"]
    /\ UNCHANGED <<sockVars, k, ret, wireVars, cfgVars, utilVars, calls>>

\* EditTransaction.isOpen of the transaction opened first, and of a child of it
isOpen == socket /\ Len(nestedContexts) > 0 /\ ~hist.rollback

\* EditTransaction.rollback of a child transaction: the transaction of the context is
\* rolled back as a whole, and no child transaction remains
rollbackChild ==
    /\ Idle
    /\ children > 0
    /\ isOpen
    /\ calls < MaxCalls
    /\ calls' = calls + 1
    /\ children' = 0
    /\ k' = <<[kind |-> "rollback", error |-> "Test"]>>
    /\ last' = Issue([kind |-> "rollbackChild"])
    /\ hist' = [hist EXCEPT !.nested = "rolled back"]
    /\ UNCHANGED <<sockVars, nestedContexts, ret, wireVars, cfgVars, utilVars>>

childIsOpen == children > 0 /\ isOpen

-----------------------------------------------------------------------------

Environment ==
    \/ SocketOpen
    \/ Handshake
    \/ SocketError
    \/ SocketClose
    \/ UpstreamReply

Context ==
    \/ applyPatch
    \/ execute
    \/ scriptStep
    \/ scriptResume
    \/ close
    \/ closeLoop
    \/ rollback

Triggers ==
    \/ performTriggers
    \/ closeTriggered
    \/ multiTriggerProvider
    \/ multiTriggerProvided

Next ==
    \/ directOpen
    \/ directCall
    \/ openChild
    \/ commitChild
    \/ rollbackChild
    \/ callerReturn
    \/ executeProvided
    \/ Environment
    \/ Context

Spec == Init /\ [][Next]_vars

NextEdit ==
    \/ edit
    \/ forwardEditSimple
    \/ editNotOpened
    \/ forwardEditWithTriggers
    \/ completeTransaction
    \/ performPatchValidation
    \/ performLiveValidation
    \/ editCaught
    \/ callerReturn
    \/ Environment
    \/ Context
    \/ Triggers

SpecEdit == InitEdit /\ [][NextEdit]_vars

\* the event loop runs every continuation that is ready, and upstream answers each
\* message it was sent unless the socket closes
SpecEditFair == SpecEdit /\ WF_vars(NextEdit)

TypeOK ==
    /\ ws \in {"none", "connecting", "open", "closed"}
    /\ socket \in BOOLEAN
    /\ uuid \in {"pending", "resolved", "rejected"}
    /\ openPromise \in {"none", "pending", "resolved", "rejected"}
    /\ calls \in 0..MaxCalls
    /\ children \in 0..MaxChildren
    /\ last.out.tag \in {"none", "result", "bool", "err"}


-----------------------------------------------------------------------------
(* Properties of a transaction context driven by a client (Spec) *)

\* the 'close' call of the client resolved after the commit went upstream
Committed == last.op.kind = "close" /\ last.out.tag = "result" /\ Sent("close")

\* C1: after successful applyPatch calls issued one after another (no trigger providers,
\* no child transactions), the result of close() has success true and its patch is the
\* concatenation of the patches of the replies, in call order
C1_CloseAggregatesInCallOrder ==
    (Committed /\ hist.pure /\ hist.nested = "none")
        => last.out.res = [success |-> TRUE, patch |-> hist.applied]

C1_Witness ==
    /\ Committed /\ hist.pure /\ hist.nested = "none"
    /\ hist.applied = PatchA \o PatchB

\* C9: without a live socket, applyPatch and execute return a promise rejected with
\* 'Socket is closed.', send nothing and leave the stack of nested contexts unchanged
C9_RejectsWithoutSocket ==
    [][((applyPatch \/ execute) /\ ~socket)
          => /\ ret' = Rejected(SocketIsClosed)
             /\ sent' = sent
             /\ nestedContexts' = nestedContexts]_vars

C9_Witness ==
    /\ last.op.kind \in {"applyPatch", "execute"}
    /\ last.out = Rejected(SocketIsClosed)
    /\ ws = "closed"
    /\ Len(nestedContexts) > 0

\* C10: close() without a live socket resolves to the fixed result {success: false}
\* and sends nothing, whatever state the transaction is in, also when called again
C10_CloseWithoutSocket ==
    [][(close /\ ~socket) => (ret' = Resolved(transactionClosed) /\ sent' = sent)]_vars

\* C6: when the transaction function provided for a command returns false, execute
\* rejects and the patch accumulated in the nested context is discarded: the contexts
\* are as they were when execute was called
C6_FailedCommandDiscarded ==
    (last.op.kind = "execute" /\ last.out = Rejected(CommandFailed))
        => nestedContexts = last.ctxs


\* one child transaction was opened on the fresh transaction, every edit since went
\* through and succeeded, and the child was committed
OneChildCommitted == hist.nested = "committed" /\ hist.pure

-----------------------------------------------------------------------------
(* Properties of EditService.edit (SpecEdit) *)

\* the edit call has settled
EditSettled == last.op.kind = "edit" /\ last.out.tag # "none"

\* the edit call ran in a transaction context that it opened
EditInTransaction == EditSettled /\ openPromise = "resolved"

\* C2: when a trigger provider throws while the commit runs its triggers, the edit
\* call rejects with the error thrown
C2_EditRejectsWithProviderError ==
    (EditSettled /\ hist.providerThrew) => last.out = Rejected(Boom)

\* C3: once a step of the trigger cascade has failed, 'close' is never sent
C3_FailedCascadeNeverCommitted ==
    hist.cascadeFailed => ~Sent("close")

\* C4: an edit performed in a transaction whose socket stays open never resolves with
\* an unsuccessful result
C4_EditNeverResolvesUnsuccessful ==
    (EditInTransaction /\ ws = "open" /\ last.out.tag = "result") => last.out.res.success

\* the transaction context has been ended: 'close' or 'roll-back' was sent, or the
\* socket is closed
ContextEnded == Sent("close") \/ Sent("roll-back") \/ ws = "closed"

AppendOneEdit ==
    /\ triggerProviders = <<"appendOne">>
    /\ last.op.kind = "edit"
    /\ last.op.input = [tag |-> "patch", patch |-> PatchA]
    /\ hist.echo

\* C7: with the appendOne trigger, an edit that sets a value not ending in a digit
\* triggers exactly one further edit, and the result is successful with the patch
\* [original, triggered]
C7_AppendOneRunsOneRound ==
    AppendOneEdit
        => /\ CountSent("execute") <= 2
           /\ (EditSettled /\ Sent("close"))
                 => /\ last.out = Resolved([success |-> TRUE, patch |-> PatchA \o TriggeredPatch])
                    /\ CountSent("execute") = 2
                    /\ sent[2] = message("execute", ExecutePatch(TriggeredPatch))

C7_Witness ==
    /\ AppendOneEdit
    /\ EditSettled
    /\ Sent("close")
    /\ last.out.tag = "result"
    /\ Len(last.out.res.patch) = 2

-----------------------------------------------------------------------------
(* Properties of the socket events and of the protocol messages *)

\* a reply is awaited on the socket
AwaitPending == Len(k) > 0 /\ Top(k).kind = "await"

\* C11: a close event of the socket invokes the close callback, drops the socket and
\* rejects the await pending on the socket with 'Socket closed', whatever is in progress
C11_SocketCloseEndsTransaction ==
    [][SocketClose
         => /\ closeCallbacks' = closeCallbacks + 1
            /\ ~socket'
            /\ ~hsAcceptor'
            /\ (hsAcceptor => uuid' = "rejected")
            /\ (AwaitPending => (ret' = Rejected(SocketClosedReason) /\ ~AwaitPending'))]_vars

C11_Witness ==
    /\ ws = "closed"
    /\ closeCallbacks = 1
    /\ last.op.kind = "applyPatch"
    /\ last.out = Rejected(SocketClosedReason)
    /\ Len(unanswered) > 0

\* C12: rollback resolves to the fixed result {success: false}; it sends one 'roll-back'
\* message if the context has a socket and nothing otherwise
C12_RollbackResult ==
    [][rollback
         => /\ ret' = Resolved(transactionClosed)
            /\ sent' = IF socket THEN Append(sent, message("roll-back", NoData)) ELSE sent]_vars

C12_Witness ==
    /\ last.op.kind = "rollback"
    /\ last.out = Resolved(transactionClosed)
    /\ ws = "open"
    /\ Len(sent) = last.nsent + 1
    /\ sent[Len(sent)].type = "roll-back"

\* C13: once rollback has been called on the transaction, no message is sent on its socket
C13_NothingSentAfterRollback ==
    [][hist.rollback => sent' = sent]_vars

\* C14: close() sends 'close' once, after every 'execute' message of the edit and of its
\* triggers has been sent and answered, and then resolves with the aggregate
C14_CloseSentLast ==
    /\ [](/\ CountSent("close") <= 1
          /\ Sent("close") => (sent[Len(sent)].type = "close" /\ unanswered = <<>>))
    /\ [][(closeLoop /\ Sent("close")')
            => (ret' = Resolved(Top(k).updateResult) /\ Len(k') = Len(k) - 1)]_vars

C14_Witness ==
    /\ Sent("close")
    /\ CountSent("execute") = 2
    /\ hist.echo
    /\ EditSettled
    /\ last.out.tag = "result"
    /\ Len(last.out.res.patch) = 2

\* C15: open() resolves only when the handshake message arrives on the opened socket,
\* with the root context pushed, and rejects on a socket error before that
C15_OpenResolvesOnHandshake ==
    /\ [](openPromise = "resolved" => (uuid = "resolved" /\ ws # "connecting"))
    /\ [][(openPromise' = "resolved" /\ openPromise # "resolved")
            => (hsAcceptor /\ ~hsAcceptor' /\ ws = "open" /\ Len(nestedContexts) = 1)]_vars
    /\ [][SocketError => (uuid # "resolved" /\ openPromise' = "rejected")]_vars

C15_Witness ==
    /\ openPromise = "resolved"
    /\ ws = "open"
    /\ calls = 0

\* C16: applyPatch with an empty patch on a context with a socket returns an
\* unsuccessful result, sends nothing and changes no nested context
C16_EmptyPatchIsNoOp ==
    [][(applyPatch /\ socket /\ Top(k).patch = EmptyPatch)
         => /\ ret' = Resolved([success |-> FALSE, patch |-> <<>>])
            /\ sent' = sent
            /\ nestedContexts' = nestedContexts]_vars

C16_Witness ==
    /\ last.op = [kind |-> "applyPatch", patch |-> EmptyPatch]
    /\ last.out = Resolved([success |-> FALSE, patch |-> <<>>])
    /\ ws = "open"
    /\ last.ctxs = nestedContexts
    /\ Len(nestedContexts) > 0

\* C17: the await of the reply to an 'execute' message resolves only with a message of
\* type 'success' (a successful update); any other message leaves it pending
C17_OnlySuccessResolvesAwait ==
    [][UpstreamReply => ret'.res.success]_vars

-----------------------------------------------------------------------------
(* JSONSocket.onMessage and WebSocketMessageAcceptor.promise (web-socket-utils):  *)
(* a socket with a persistent message handler and a one-shot promise of the       *)
(* handshake message, whose predicate is `typeof msg.data === 'string'`           *)

contextVars == <<sockVars, nestedContexts, k, ret, wireVars, callerVars, hist>>
contextVarsButLast == <<sockVars, nestedContexts, k, ret, wireVars, calls, children, hist>>

StringData(value) == [type |-> "string", value |-> value]
ObjectData == [type |-> "object", value |-> <<>>]

\* payloads of the inbound messages: two UUIDs, the empty string, and an object
Payloads == {StringData(<<"u", "1">>), StringData(<<"u", "2">>), StringData(<<>>), ObjectData}

\* frames: binary; text that is not JSON; JSON that is not a message; a message
Frames ==
    {[kind |-> f, data |-> ObjectData] : f \in {"binary", "garbage", "json"}}
        \cup {[kind |-> "message", data |-> d] : d \in Payloads}

\* JSONSocket.parse: JSON.parse of the text, then the type guard
parse(frame) ==
    CASE frame.kind = "garbage" -> [tag |-> "throw"]
      [] frame.kind = "message" -> [tag |-> "message", data |-> frame.data]
      [] OTHER -> [tag |-> "undefined"]

\* truthiness of a payload in JavaScript: the empty string is falsy
truthy(data) == data.type = "object" \/ Len(data.value) > 0

\* the predicate given to promise() by DefaultTransactionContext.open
isString(msg) == msg.data.type = "string"

\* the parser of promise(): the payload of a message that satisfies the predicate
promiseParser(msg) == IF isString(msg) THEN [tag |-> "data", data |-> msg.data] ELSE [tag |-> "undefined"]

\* the callback of accept(): the message is accepted if the parser yields a truthy value
accepts(msg) == promiseParser(msg).tag = "data" /\ truthy(promiseParser(msg).data)

settle(promise, value) == IF promise.tag = "none" THEN value ELSE promise

\* a frame arrives: the listener of onMessage drops it, throws, or calls the handlers;
\* handleMessage of the acceptor resolves the promise and stops listening on a match
onMessage ==
    /\ mode = "socket"
    /\ jsonSocket.open
    /\ jsonSocket.frames < MaxFrames
    /\ \E frame \in Frames :
          LET msg == parse(frame)
          IN  IF frame.kind = "binary" \/ msg.tag = "undefined"
              THEN /\ jsonSocket' = [jsonSocket EXCEPT !.frames = @ + 1]
                   /\ UNCHANGED acceptor
              ELSE IF msg.tag = "throw"
              THEN /\ jsonSocket' = [jsonSocket EXCEPT !.frames = @ + 1, !.raised = @ + 1]
                   /\ UNCHANGED acceptor
              ELSE /\ jsonSocket' = [jsonSocket EXCEPT !.frames = @ + 1, !.handled = Append(@, msg)]
                   /\ acceptor' =
                         IF acceptor.listening /\ accepts(msg)
                         THEN [listening |-> FALSE,
                               promise |-> settle(acceptor.promise, Resolved(msg.data)),
                               settled |-> acceptor.settled + 1]
                         ELSE acceptor
    /\ UNCHANGED <<contextVars, cfgVars, spyCalls, contexts>>

\* the socket closes: handleClose of the acceptor rejects the promise and stops listening
onClose ==
    /\ mode = "socket"
    /\ jsonSocket.open
    /\ jsonSocket' = [jsonSocket EXCEPT !.open = FALSE]
    /\ acceptor' =
          IF acceptor.listening
          THEN [listening |-> FALSE,
                promise |-> settle(acceptor.promise, Rejected(SocketClosedReason)),
                settled |-> acceptor.settled + 1]
          ELSE acceptor
    /\ UNCHANGED <<contextVars, cfgVars, spyCalls, contexts>>

InitSocket ==
    /\ Start
    /\ mode = "socket"
    /\ modelURI = TestA
    /\ triggerProviders = <<>>
    /\ registrations = Registered(triggerProviders)
    /\ commandProviders = <<>>
    /\ contexts = NoContexts
    /\ spyCalls = <<>>
    /\ jsonSocket = [open |-> TRUE, frames |-> 0, handled |-> <<>>, raised |-> 0]
    /\ acceptor = [listening |-> TRUE, promise |-> NoRet, settled |-> 0]

NextSocket ==
    \/ onMessage
    \/ onClose

SpecSocket == InitSocket /\ [][NextSocket]_vars

\* the messages delivered so far that satisfy the predicate of the promise
Matching == SelectSeq(jsonSocket.handled, isString)

\* C18: the promise settles once; messages that do not satisfy the predicate leave it
\* pending; it resolves with the first message that satisfies the predicate and stops
\* listening; if the socket closes before such a message it rejects with 'Socket closed'
C18_PromiseSettlesOnFirstMatch ==
    /\ acceptor.settled <= 1
    /\ acceptor.listening <=> (acceptor.promise = NoRet)
    /\ Len(Matching) > 0 => acceptor.promise = Resolved(Matching[1].data)
    /\ (Len(Matching) = 0 /\ jsonSocket.open) => acceptor.promise = NoRet
    /\ (Len(Matching) = 0 /\ ~jsonSocket.open) => acceptor.promise = Rejected(SocketClosedReason)

\* C19: a binary frame or a text frame that is not JSON is dropped without raising an
\* error: every frame has been delivered to the handler, or dropped
C19_BadFramesDropped ==
    jsonSocket.raised = 0

-----------------------------------------------------------------------------
(* The registry queried as in its tests: the triggers provided for a model are run *)
(* on a spy Executor that records the patches it is asked to apply                *)

\* registry.getProvider(uri, patch).getTriggers(uri, patch), then the transaction, if
\* a transaction is provided, is run on the spy
queryTriggers ==
    /\ mode = "registry"
    /\ calls = 0
    /\ calls' = 1
    /\ last' = Issue([kind |-> "transaction"])
    /\ LET triggers == getTriggers(triggerProviders, QueryPatch)
       IN  IF triggers.tag = "multi"
           THEN k' = <<TriggerFrame(triggers, QueryPatch)>>
           ELSE UNCHANGED k
    /\ UNCHANGED <<sockVars, nestedContexts, ret, wireVars, cfgVars, utilVars, hist, children>>

\* applyPatch of the spy Executor
spyApplyPatch ==
    /\ mode = "registry"
    /\ Running("applyPatch")
    /\ spyCalls' = Append(spyCalls, Top(k).patch)
    /\ \E success \in BOOLEAN : Return(Resolved([success |-> success, patch |-> <<>>]))
    /\ UNCHANGED <<sockVars, nestedContexts, wireVars, cfgVars, jsonSocket, acceptor, contexts, callerVars, hist>>

InitRegistry ==
    /\ Start
    /\ NoUtilities
    /\ mode = "registry"
    /\ modelURI \in {TestA, TestB, NoneA}
    /\ triggerProviders \in SeqsUpTo(RegistryTestKinds, MaxProviders)
    /\ registrations = Registered(triggerProviders)
    /\ commandProviders = <<>>

NextRegistry ==
    \/ queryTriggers
    \/ multiTriggerProvider
    \/ multiTriggerProvided
    \/ spyApplyPatch
    \/ callerReturn

SpecRegistry == InitRegistry /\ [][NextRegistry]_vars

\* the registered providers that can trigger on the model, in registration order
MatchingProviders == SelectSeq(triggerProviders, LAMBDA p : canTrigger(p, QueryPatch))

\* C20: when several registered providers match the model, the transaction of the
\* aggregate asks each of them once, in registration order, and the Executor receives
\* one applyPatch for each, with the patch of that provider
C20_AggregateInvokesEachProvider ==
    (mode = "registry" /\ Len(MatchingProviders) >= 2)
        => /\ Len(spyCalls) <= Len(MatchingProviders)
           /\ \A i \in 1..Len(spyCalls) :
                 spyCalls[i] = providerGetTriggers(MatchingProviders[i], QueryPatch).patch
           /\ (last.out.tag # "none") => Len(spyCalls) = Len(MatchingProviders)

C20_Witness ==
    /\ mode = "registry"
    /\ modelURI = TestA
    /\ triggerProviders = <<"provider1", "provider2">>
    /\ last.out = ResolvedBool(TRUE)
    /\ spyCalls = <<Provider1Patch, Provider2Patch>>

-----------------------------------------------------------------------------
(* Properties of the aggregate trigger provider *)

IsSuffix(s, t) == Len(s) <= Len(t) /\ s = SubSeq(t, Len(t) - Len(s) + 1, Len(t))

\* a trigger transaction invoked by the aggregate has returned false
SubTransactionFailed == Returned("multi") /\ Top(k).pc = "fn" /\ ret.tag = "bool" /\ ~ret.b

\* C21: the aggregate asks the matching providers in registration order, and when a
\* trigger transaction that it invoked returns false it returns false at once: the
\* providers registered after that one are not invoked and nothing more is sent
C21_AggregateStopsAtFirstFailure ==
    /\ [](\A i \in 1..Len(k) :
             k[i].kind = "multi" => IsSuffix(k[i].provs, getProviders(triggerProviders, k[i].delta)))
    /\ [][(multiTriggerProvided /\ SubTransactionFailed)
            => (k' = Pop(k) /\ ret' = ResolvedBool(FALSE) /\ sent' = sent)]_vars

\* txnFalse fails with appendOne registered after it: the patch that appendOne would
\* provide for the edit is never sent
C21_Witness ==
    /\ triggerProviders = <<"txnFalse", "appendOne">>
    /\ last.op.kind = "edit"
    /\ last.op.input = [tag |-> "patch", patch |-> PatchA]
    /\ hist.cascadeFailed
    /\ hist.echo
    /\ EditSettled
    /\ ws = "open"
    /\ sent[2] = message("execute", ExecutePatch(TxnTriggerPatch))
    /\ \A i \in 1..Len(sent) : sent[i] # message("execute", ExecutePatch(TriggeredPatch))

\* C22: the aggregate returns the conjunction of the sub-results it invoked: the return
\* values of the trigger transactions and the success of the trigger patches applied
C22_AggregateResultIsConjunction ==
    [][(multiTriggerProvider /\ Len(Top(k).provs) = 0) => ret' = ResolvedBool(Top(k).all)]_vars

\* the registrations whose provider can trigger on the model
Matches == {i \in 1..Len(triggerProviders) : canTrigger(triggerProviders[i], QueryPatch)}

\* C23: getProvider returns undefined when no registered provider can trigger (no
\* trigger is provided and nothing runs), the provider itself when exactly one can, and
\* an aggregate of the matching providers when two or more can
C23_GetProviderByMatchCount ==
    LET provider == getProvider(triggerProviders, QueryPatch)
    IN  /\ Cardinality(Matches) = 0
              => /\ provider = [tag |-> "undefined"]
                 /\ getTriggers(triggerProviders, QueryPatch) = [tag |-> "undefined"]
                 /\ k = <<>> /\ spyCalls = <<>>
        /\ Cardinality(Matches) = 1
              => /\ provider.tag = "single"
                 /\ \A i \in Matches : provider.provider = triggerProviders[i]
                 /\ k = <<>> /\ spyCalls = <<>>
        /\ Cardinality(Matches) >= 2
              => /\ provider.tag = "multi"
                 /\ Len(provider.providers) = Cardinality(Matches)
                 /\ calls = 1 => (k # <<>> \/ Len(spyCalls) = Cardinality(Matches))

\* the model 'test:b' is queried with both test providers registered: provider2 alone
\* can trigger and is returned itself
C23_Witness ==
    /\ mode = "registry"
    /\ calls = 1
    /\ modelURI = TestB
    /\ triggerProviders = <<"provider1", "provider2">>
    /\ getProvider(triggerProviders, QueryPatch) = [tag |-> "single", provider |-> "provider2"]

-----------------------------------------------------------------------------
(* Registration of providers by the plug-ins, then one custom command executed  *)
(* in a transaction.  Plug-ins register while they are initialized, before any  *)
(* transaction is opened.  A provider object is identified by its kind.         *)

\* CommandProviderRegistry.primitiveCommandTypes
primitiveCommandTypes == {"add", "remove", "set"}

CommandTypes == primitiveCommandTypes \cup {CustomType}

\* the command providers of the plug-ins: each substitutes a command or a patch for
\* the custom command, or cannot handle it
PluginCommandKinds == {"substCommand", "substPatch", "cannot"}

AttemptToRegister == "Attempt to register custom command provider for primitive command"

registerUnchecked(registry, commandType, provider) ==
    [tag |-> "void", providers |-> getCommandProviders(registry, commandType) \o <<provider>>]

\* CommandProviderRegistry.register: it throws, or the providers of the type after it
register(registry, commandType, provider) ==
    IF commandType \in primitiveCommandTypes
    THEN [tag |-> "throw", providers |-> registry]
    ELSE [tag |-> "void", providers |-> getCommandProviders(registry, commandType) \o <<provider>>]

\* CommandProviderRegistry.unregister: the providers of the type after it
unregister(registry, commandType, provider) ==
    IF hasProvider(registry, commandType)
    THEN SelectSeq(getCommandProviders(registry, commandType), LAMBDA item : item # provider)
    ELSE registry

\* the registry is not in use yet: no transaction has been opened
Configuring == mode = "plugins" /\ openPromise = "none" /\ k = <<>>

\* ModelServerPluginContext.registerCommandProvider
registerCommandProvider ==
    /\ Configuring
    /\ Len(commandProviders) < MaxRegistered
    /\ \E commandType \in CommandTypes, provider \in PluginCommandKinds :
          LET registered == register(commandProviders, commandType, provider)
          IN  /\ commandProviders' = registered.providers
              /\ last' = [Issue([kind |-> "register", type |-> commandType, provider |-> provider])
                            EXCEPT !.out = IF registered.tag = "throw"
                                           THEN Rejected(AttemptToRegister)
                                           ELSE ResolvedBool(TRUE)]
    /\ UNCHANGED <<contextVarsButLast, triggerProviders, mode, modelURI, registrations, utilVars>>

\* Registration.unregister of a command provider, also one that is not registered
unregisterCommandProvider ==
    /\ Configuring
    /\ \E commandType \in CommandTypes, provider \in PluginCommandKinds :
          /\ commandProviders' = unregister(commandProviders, commandType, provider)
          /\ last' = [Issue([kind |-> "unregister", type |-> commandType, provider |-> provider])
                        EXCEPT !.out = ResolvedBool(TRUE)]
    /\ UNCHANGED <<contextVarsButLast, triggerProviders, mode, modelURI, registrations, utilVars>>

\* TriggerProviderRegistry.register: the provider is stored under a new UUID
registerTriggerProvider ==
    /\ Configuring
    /\ registrations.uuids < MaxRegistered
    /\ \E provider \in RegistryTestKinds :
          LET id == registrations.uuids + 1
          IN  /\ triggerProviders' = Append(triggerProviders, provider)
              /\ registrations' = [ids |-> Append(registrations.ids, id), uuids |-> id]
              /\ last' = [Issue([kind |-> "registerTrigger", id |-> id, provider |-> provider])
                            EXCEPT !.out = ResolvedBool(TRUE)]
    /\ UNCHANGED <<contextVarsButLast, commandProviders, mode, modelURI, utilVars>>

\* the sequence without its i-th element
RemoveAt(seq, i) == SubSeq(seq, 1, i - 1) \o SubSeq(seq, i + 1, Len(seq))

unregisterTriggerProviderById ==
    /\ Configuring
    /\ \E id \in 1..MaxRegistered, provider \in RegistryTestKinds :
          LET at == {i \in 1..Len(triggerProviders) : registrations.ids[i] = id}
          IN  /\ IF at # {}
                 THEN LET i == CHOOSE i \in at : TRUE
                      IN  /\ triggerProviders' = RemoveAt(triggerProviders, i)
                          /\ registrations' = [registrations EXCEPT !.ids = RemoveAt(@, i)]
                 ELSE UNCHANGED <<triggerProviders, registrations>>
              /\ last' = [Issue([kind |-> "unregisterTrigger", id |-> id, provider |-> provider])
                            EXCEPT !.out = ResolvedBool(TRUE)]
    /\ UNCHANGED <<contextVarsButLast, commandProviders, mode, modelURI, utilVars>>

\* TriggerProviderRegistry.unregister: the entry is deleted if `id` is a key and the
\* provider stored under it is the given one
unregisterTriggerProvider ==
    /\ Configuring
    /\ \E id \in 1..MaxRegistered, provider \in RegistryTestKinds :
          LET at == {i \in 1..Len(triggerProviders) :
                        registrations.ids[i] = id /\ triggerProviders[i] = provider}
          IN  /\ IF at # {}
                 THEN LET i == CHOOSE i \in at : TRUE
                      IN  /\ triggerProviders' = RemoveAt(triggerProviders, i)
                          /\ registrations' = [registrations EXCEPT !.ids = RemoveAt(@, i)]
                 ELSE UNCHANGED <<triggerProviders, registrations>>
              /\ last' = [Issue([kind |-> "unregisterTrigger", id |-> id, provider |-> provider])
                            EXCEPT !.out = ResolvedBool(TRUE)]
    /\ UNCHANGED <<contextVarsButLast, commandProviders, mode, modelURI, utilVars>>

\* a transaction is opened on the model
pluginsOpen ==
    /\ mode = "plugins"
    /\ OpenContext
    /\ UNCHANGED <<k, ret, wireVars, cfgVars, utilVars, callerVars, hist>>

\* the custom command is executed in the transaction
executeCall ==
    /\ mode = "plugins"
    /\ openPromise = "resolved"
    /\ k = <<>>
    /\ ret.tag = "none"
    /\ calls = 0
    /\ calls' = 1
    /\ k' = <<[kind |-> "execute", pc |-> "start", command |-> CustomCommand]>>
    /\ last' = Issue([kind |-> "execute", pc |-> "start", command |-> CustomCommand])
    /\ UNCHANGED <<sockVars, nestedContexts, ret, wireVars, cfgVars, utilVars, hist, children>>

InitPlugins ==
    /\ Start
    /\ NoUtilities
    /\ mode = "plugins"
    /\ modelURI = TestA
    /\ triggerProviders = <<>>
    /\ registrations = Registered(triggerProviders)
    /\ commandProviders = <<>>

NextPlugins ==
    \/ registerCommandProvider
    \/ unregisterCommandProvider
    \/ registerTriggerProvider
    \/ unregisterTriggerProvider
    \/ pluginsOpen
    \/ executeCall
    \/ callerReturn
    \/ Environment
    \/ execute

SpecPlugins == InitPlugins /\ [][NextPlugins]_vars

\* the registrations for the type of the custom command that can handle it
Handlers == {i \in 1..Len(commandProviders) : canHandle(commandProviders[i], CustomCommand)}

FirstHandler == CHOOSE i \in Handlers : \A j \in Handlers : i <= j

\* C24: getCommands gives what the first registered provider that can handle the
\* command provides; when none can, or none is registered for the type of the command,
\* it gives the command itself, and execute sends that command upstream
C24_FirstMatchOrIdentity ==
    /\ [](/\ Handlers # {}
             => getCommands(commandProviders, CustomCommand)
                   = providerGetCommands(commandProviders[FirstHandler], CustomCommand)
          /\ Handlers = {}
             => getCommands(commandProviders, CustomCommand) = [tag |-> "command", command |-> CustomCommand]
          /\ getCommands(commandProviders, SetCommand) = [tag |-> "command", command |-> SetCommand])
    /\ [][(execute /\ socket /\ Len(nestedContexts) > 0 /\ Handlers = {})
            => sent' = Append(sent, message("execute", ExecuteCommand(Top(k).command)))]_vars

\* two providers that can handle the command are registered, and the command was
\* executed: what went upstream is the patch substituted by the first
C24_Witness ==
    /\ mode = "plugins"
    /\ commandProviders = <<"substPatch", "substCommand">>
    /\ last.op.kind = "execute"
    /\ sent = <<message("execute", ExecutePatch(CustomCommand.patch))>>

\* C25: registering a command provider for one of the primitive types add, remove and
\* set throws and leaves the registry as it was; for another type the provider is
\* appended to the providers of the type
C25_RegisterRejectsPrimitiveTypes ==
    [][registerCommandProvider
         => IF last'.op.type \in {"add", "remove", "set"}
            THEN last'.out = Rejected(AttemptToRegister) /\ commandProviders' = commandProviders
            ELSE last'.out.tag # "err" /\ commandProviders' = Append(commandProviders, last'.op.provider)]_vars

C25_Witness ==
    /\ last.op.kind = "register"
    /\ last.op.type = "set"
    /\ last.out = Rejected(AttemptToRegister)
    /\ commandProviders = <<"substPatch">>

Without(seq, x) == SelectSeq(seq, LAMBDA item : item # x)

\* the entries of the trigger registry: key and provider, in registration order
Entries == [i \in 1..Len(triggerProviders) |-> <<registrations.ids[i], triggerProviders[i]>>]

WithoutKey(entries, id) == SelectSeq(entries, LAMBDA e : e[1] # id)

\* C26: unregister never throws; in the command registry it removes the given provider
\* and no other, and in the trigger registry the entry of the given key if it holds the
\* given provider; otherwise it changes nothing; registering a provider and then
\* unregistering it leaves the registry as it was before
C26_UnregisterByIdentity ==
    /\ [](\A provider \in PluginCommandKinds :
             (\A i \in 1..Len(commandProviders) : commandProviders[i] # provider)
                => /\ unregister(commandProviders, CustomType, provider) = commandProviders
                   /\ unregister(register(commandProviders, CustomType, provider).providers,
                                 CustomType, provider) = commandProviders)
    /\ [][unregisterCommandProvider
            => /\ last'.out.tag # "err"
               /\ commandProviders' = IF last'.op.type = CustomType
                                      THEN Without(commandProviders, last'.op.provider)
                                      ELSE commandProviders]_vars
    /\ [][registerTriggerProvider => WithoutKey(Entries', last'.op.id) = Entries]_vars
    /\ [][unregisterTriggerProvider
            => /\ last'.out.tag # "err"
               /\ registrations'.uuids = registrations.uuids
               /\ Entries' = IF \E i \in 1..Len(Entries) : Entries[i] = <<last'.op.id, last'.op.provider>>
                             THEN WithoutKey(Entries, last'.op.id)
                             ELSE Entries]_vars

\* a trigger provider was registered and then unregistered with its key: the registry
\* has no providers, as before
C26_Witness ==
    /\ last.op = [kind |-> "unregisterTrigger", id |-> 1, provider |-> "provider1"]
    /\ registrations = [ids |-> <<>>, uuids |-> 1]
    /\ ~hasProviders(triggerProviders)

-----------------------------------------------------------------------------
(* Properties of the validation that follows an edit (SpecEdit) *)

\* live validation of the edited model has been started and has not finished
ValidationRunning == Len(k) > 0 /\ Top(k).kind = "edit" /\ Top(k).pc = "validating"

\* C27: however the live validation ends, edit resolves with the result that was
\* validated; validation sends nothing, and no rollback is called because of it
C27_ValidationKeepsOutcome ==
    /\ [][performLiveValidation
            => /\ ret' = Resolved(Top(k).validate)
               /\ sent' = sent
               /\ hist'.rollback = hist.rollback]_vars
    /\ [](hist.validated => (~hist.rollback /\ ~Sent("roll-back")))
    /\ []((hist.validated /\ EditSettled) => (last.out.tag = "result" /\ last.out.res.success))

\* the validation of a committed edit failed, and the edit resolved successfully
C27_Witness ==
    /\ EditSettled
    /\ hist.validation = "failed"
    /\ Sent("close")
    /\ last.out.tag = "result"
    /\ last.out.res.success

\* C28: validation is started only for a result with success true; when the edit ran
\* in a transaction, the transaction was committed and never rolled back
C28_ValidationGatedOnSuccess ==
    /\ [](ValidationRunning
            => /\ Top(k).validate.success
               /\ ~hist.rollback
               /\ openPromise # "none" => (hist.commit /\ Sent("close")))
    /\ [][performPatchValidation
            => (ValidationRunning' <=> (ret.tag = "result" /\ ret.res.success))]_vars

C28_Witness ==
    /\ ValidationRunning
    /\ triggerProviders = <<"appendOne">>
    /\ Sent("close")
    /\ Len(Top(k).validate.patch) = 2

\* C29: edit delivers its result without waiting for the validation: when the result
\* of the completed edit is known, edit resolves with it in that step
C29_ValidationNonBlocking ==
    [][(performPatchValidation /\ ret.tag = "result") => (k' = <<>> /\ ret' = ret)]_vars

\* C30: without trigger providers, an edit that has settled was performed in a
\* transaction that it opened, and committed or rolled back
C30_SimplePathUsesTransaction ==
    (~hasProviders(triggerProviders) /\ EditSettled)
        => /\ openPromise # "none"
           /\ openPromise = "resolved" => (hist.commit \/ hist.rollback)

-----------------------------------------------------------------------------
(* Properties of the nested contexts of a transaction (Spec) *)

\* the child transaction was rolled back, and that call has settled
ChildRolledBack == last.op.kind = "rollbackChild" /\ last.out.tag # "none"

-----------------------------------------------------------------------------
(* Two transactions at the same time (SpecContexts): InternalModelServerClient *)
(* creates one DefaultTransactionContext for each openTransaction; the client *)
(* of a context calls it sequentially, the clients of two contexts interleave *)

\* InternalModelServerClient.openTransaction up to the return of open(): the context
\* is constructed, its WebSocket is created and the root context is pushed
openTransaction(c) ==
    /\ contexts[c].state = "none"
    /\ contexts' = [contexts EXCEPT ![c].state = "connecting",
                                    ![c].nestedContexts = pushNestedContext(@)]
    /\ UNCHANGED <<contextVars, cfgVars, spyCalls, jsonSocket, acceptor>>

\* socket.onopen of the context: this.socket is set
tcOnOpen(c) ==
    /\ contexts[c].state = "connecting"
    /\ contexts' = [contexts EXCEPT ![c].state = "open", ![c].socket = TRUE]
    /\ UNCHANGED <<contextVars, cfgVars, spyCalls, jsonSocket, acceptor>>

\* the handshake reply on the socket of the context: the uuid is resolved and open()
\* resolves with the context, which its client may use from now on
tcHandshake(c) ==
    /\ contexts[c].state = "open"
    /\ contexts' = [contexts EXCEPT ![c].state = "ready"]
    /\ UNCHANGED <<contextVars, cfgVars, spyCalls, jsonSocket, acceptor>>

\* socket.onclose of the context
tcOnClose(c) ==
    /\ contexts[c].state \in {"connecting", "open", "ready"}
    /\ contexts' = [contexts EXCEPT ![c].state = "closed", ![c].socket = FALSE]
    /\ UNCHANGED <<contextVars, cfgVars, spyCalls, jsonSocket, acceptor>>

\* the client of the context holds it and awaits no call on it
tcIdle(c) ==
    /\ contexts[c].state \in {"ready", "closed"}
    /\ contexts[c].awaiting = <<>>
    /\ contexts[c].out = NoRet

\* the change that the client of context c applies: the two clients differ in it
ClientPatch(c) == IF c = 1 THEN PatchA ELSE PatchB

tcSendOnFirst(c, body) ==
    [contexts EXCEPT ![1].sent = Append(@, message("execute", body)),
                     ![c].awaiting = <<[body |-> body, cur |-> Len(contexts[c].nestedContexts)]>>]

\* sendExecuteMessage of context c with a socket: the contexts after the send
tcSendExecuteMessage(c, body) ==
    [contexts EXCEPT ![c].sent = Append(@, message("execute", body)),
                     ![c].awaiting = <<[body |-> body, cur |-> Len(contexts[c].nestedContexts)]>>]

\* applyPatch on context c, up to the await of the reply
tcApplyPatch(c) ==
    /\ tcIdle(c)
    /\ contexts[c].ops < MaxOps
    /\ \E patch \in {ClientPatch(c)} :
          contexts' = IF ~contexts[c].socket
                      THEN [contexts EXCEPT ![c].ops = @ + 1]
                      ELSE [tcSendExecuteMessage(c, ExecutePatch(patch)) EXCEPT ![c].ops = @ + 1]
    /\ UNCHANGED <<contextVars, cfgVars, spyCalls, jsonSocket, acceptor>>

\* the reply accepted by the one-shot acceptor on the socket of context c
tcUpstreamReply(c) ==
    /\ contexts[c].state = "ready"
    /\ contexts[c].awaiting # <<>>
    /\ LET await == contexts[c].awaiting[1]
       IN  \E msg \in Replies(await.body) :
              contexts' = [contexts EXCEPT
                  ![c].nestedContexts =
                      IF await.cur <= Len(@)
                      THEN [@ EXCEPT ![await.cur] = mergeModelUpdateResult(@, patchModel(msg))]
                      ELSE @,
                  ![c].merged = Append(@, patchModel(msg)),
                  ![c].awaiting = <<>>]
    /\ UNCHANGED <<contextVars, cfgVars, spyCalls, jsonSocket, acceptor>>

\* close of context c when no trigger is provided for its changes
tcClose(c) ==
    /\ tcIdle(c)
    /\ LET updateResult == Top(contexts[c].nestedContexts)
       IN  /\ Len(updateResult.patch) > 0
                 => ~hasTriggers(getTriggers(triggerProviders, updateResult.patch))
           /\ contexts' =
                 IF ~contexts[c].socket
                 THEN [contexts EXCEPT ![c].nestedContexts = popNestedContext(@),
                                       ![c].out = Resolved(transactionClosed)]
                 ELSE [contexts EXCEPT ![c].nestedContexts = popNestedContext(@),
                                       ![c].sent = Append(@, message("close", NoData)),
                                       ![c].out = Resolved(updateResult)]
    /\ UNCHANGED <<contextVars, cfgVars, spyCalls, jsonSocket, acceptor>>

\* rollback of context c
tcRollback(c) ==
    /\ tcIdle(c)
    /\ contexts' =
          IF contexts[c].socket
          THEN [contexts EXCEPT ![c].sent = Append(@, message("roll-back", NoData)),
                                ![c].out = Resolved(transactionClosed)]
          ELSE [contexts EXCEPT ![c].out = Resolved(transactionClosed)]
    /\ UNCHANGED <<contextVars, cfgVars, spyCalls, jsonSocket, acceptor>>

InitContexts ==
    /\ Start
    /\ NoUtilities
    /\ mode = "contexts"
    /\ modelURI = TestA
    /\ triggerProviders = <<>>
    /\ registrations = Registered(triggerProviders)
    /\ commandProviders = <<>>

NextContexts ==
    \E c \in ContextIds :
        \/ openTransaction(c)
        \/ tcOnOpen(c)
        \/ tcHandshake(c)
        \/ tcOnClose(c)
        \/ tcApplyPatch(c)
        \/ tcUpstreamReply(c)
        \/ tcClose(c)
        \/ tcRollback(c)

SpecContexts == InitContexts /\ [][NextContexts]_vars

RECURSIVE MergeAll(_, _)
\* the aggregate of a context into which the results were merged one after another
MergeAll(dst, results) ==
    IF Len(results) = 0 THEN dst
    ELSE MergeAll(mergeModelUpdateResult(dst, Head(results)), Tail(results))

\* the close of context c went upstream
TcCommitted(c) == contexts[c].out # NoRet /\ Len(contexts[c].sent) > 0 /\ Top(contexts[c].sent).type = "close"

-----------------------------------------------------------------------------
(* Properties of the stack of nested contexts (Spec, SpecEdit) *)

\* a call of close() is in progress
Closing == \E i \in 1..Len(k) : k[i].kind = "close"

\* the transaction is open: open() resolved, the socket is there, and the transaction
\* was neither committed by close() nor rolled back, nor is close() at work on it
TransactionOpen ==
    /\ openPromise = "resolved"
    /\ socket
    /\ ~Sent("close")
    /\ ~hist.rollback
    /\ ~Closing

\* C33: the stack of nested contexts is non-empty as long as the transaction is open
C33_StackNonEmptyWhileOpen == TransactionOpen => Len(nestedContexts) > 0

\* C34: a step that pops a frame off a stack of two or more leaves the frames below as
\* they were, except that the patch of the new top is its own patch followed by the
\* patch of the popped frame
C34_PopConcatenates ==
    [][(Len(nestedContexts) > 1 /\ Len(nestedContexts') = Len(nestedContexts) - 1)
          => /\ Top(nestedContexts').patch
                   = nestedContexts[Len(nestedContexts) - 1].patch \o Top(nestedContexts).patch
             /\ \A i \in 1..Len(nestedContexts) - 2 : nestedContexts'[i] = nestedContexts[i]]_vars

\* execute ran a provided transaction function on a transaction that had changes: its
\* frame was popped, and its patch follows the earlier changes in the root frame
C34_Witness ==
    /\ last.op.kind = "execute"
    /\ commandProviders = <<"fnTrue">>
    /\ last.out = Resolved([success |-> TRUE, patch |-> CommandFnPatch])
    /\ last.ctxs = <<[success |-> TRUE, patch |-> PatchA]>>
    /\ nestedContexts = <<[success |-> TRUE, patch |-> PatchA \o CommandFnPatch]>>

\* the execute call of the client has settled
ExecuteSettled == last.op.kind = "execute" /\ last.out.tag # "none"

\* C35: execute leaves the stack of nested contexts at the depth it had when it was
\* called, however it ends: resolved, rejected for a falsy result, or rejected by a
\* provided transaction function that throws
C35_StackDepthPreserved == ExecuteSettled => Len(nestedContexts) = Len(last.ctxs)

-----------------------------------------------------------------------------
(* Properties of the replies to 'execute' messages (Spec): the client issues a call *)
(* only when the call before it has settled                                        *)

\* the awaits of a reply that are pending
Awaits == {i \in 1..Len(k) : k[i].kind = "await"}

C37_ReplyMergedIntoInnermost ==
    [][/\ (Len(sent') > Len(sent) /\ sent'[Len(sent')].type = "execute")
             => /\ AwaitPending'
                /\ Top(k').cur = Len(nestedContexts)
                /\ nestedContexts' = nestedContexts
       /\ UpstreamReply
             => /\ Top(k).cur = Len(nestedContexts)
                /\ Len(nestedContexts') = Len(nestedContexts)
                /\ \A i \in 1..Len(nestedContexts) - 1 : nestedContexts'[i] = nestedContexts[i]
                /\ Top(nestedContexts').patch = Top(nestedContexts).patch \o ret'.res.patch]_vars

\* a patch was applied in a child transaction of a transaction that had a change: the
\* reply is in the frame of the child, the root frame is as it was
C37_Witness ==
    /\ last.op = [kind |-> "applyPatch", patch |-> PatchB]
    /\ last.out = Resolved([success |-> TRUE, patch |-> PatchB])
    /\ children = 1
    /\ Len(last.ctxs) = 2
    /\ nestedContexts = <<[success |-> TRUE, patch |-> PatchA], [success |-> TRUE, patch |-> PatchB]>>

-----------------------------------------------------------------------------
(* Properties of the trigger loop of close (SpecEdit) *)

\* C38: a test of the loop of close with nothing to query ends close: with a socket it
\* sends 'close' and resolves with the aggregate; a query that yields no trigger empties
\* the delta and sends nothing; any other query starts a trigger round or rejects; and a
\* finished trigger round makes its own patch the next delta, so that an empty patch
\* ends the loop at the next test
C38_TriggerLoopEnds ==
    [][/\ closeLoop
             => LET delta == Top(k).modelDelta
                    triggers == getTriggers(triggerProviders, delta)
                IN  IF Len(delta) = 0
                    THEN /\ k' = Pop(k)
                         /\ socket => /\ sent' = Append(sent, message("close", NoData))
                                      /\ ret' = Resolved(Top(k).updateResult)
                    ELSE IF triggers.tag = "throw"
                    THEN k' = Pop(k) /\ ret'.tag = "err" /\ sent' = sent
                    ELSE IF ~hasTriggers(triggers)
                    THEN /\ k' = [k EXCEPT ![Len(k)].modelDelta = <<>>]
                         /\ sent' = sent
                    ELSE /\ Len(k') > Len(k)
                         /\ Len(nestedContexts') = Len(nestedContexts) + 1
       /\ (closeTriggered /\ ret.tag # "err")
             => /\ Top(k').pc = "loop"
                /\ Top(k').modelDelta = ret.res.patch
                /\ sent' = sent]_vars

\* the round of the appendOne trigger was answered with an empty patch: no further
\* query found a trigger, 'close' was sent after the two requests and the edit resolved
C38_Witness ==
    /\ triggerProviders = <<"appendOne">>
    /\ last.op.kind = "edit"
    /\ last.out = Resolved([success |-> TRUE, patch |-> PatchA])
    /\ CountSent("execute") = 2
    /\ Len(sent) = 3
    /\ sent[3] = message("close", NoData)

-----------------------------------------------------------------------------
(* Properties of the success of the aggregate (SpecContexts) *)

\* C39: the result of a committed close() of a context is successful only if every
\* reply merged during its transaction was successful
C39_AggregateSuccessIsConjunction ==
    \A c \in ContextIds :
        (TcCommitted(c) /\ contexts[c].out.res.success)
            => \A i \in 1..Len(contexts[c].merged) : contexts[c].merged[i].success

-----------------------------------------------------------------------------
(* Properties of open (Spec) *)

\* C40: once the socket has closed with the handshake message still awaited (the close
\* rejected the UUID), the promise returned by open() is settled: it does not stay pending
C40_OpenSettles == (ws = "closed" /\ uuid = "rejected") => openPromise # "pending"

=============================================================================
